---- MODULE Spec2Model ----
(***************************************************************************)
(* State-machine model of the OpenGL backend's native resource types       *)
(* (src/src/backend/gl/src/native.rs): the descriptor binding remapper     *)
(* DescRemapData, the DescriptorPool, Memory and SubpassDesc.              *)
(*                                                                         *)
(* Every method of the source is an operator that maps the receiver (and   *)
(* the arguments) to the receiver after the call and the value returned;   *)
(* every action applies one method to the state and records the call in    *)
(* `ret`.  History variables (spare_slots, reserved, registered, returned, *)
(* explicit_reserved, calls) record what the callers did; the program      *)
(* never reads them.                                                       *)
(*                                                                         *)
(* pso::DescriptorBinding is a machine integer; `*nb += 1` leaves the      *)
(* naturals only after 2^32 (or 2^64) calls on one remapper, which the     *)
(* bound MaxCalls keeps out of the model.                                  *)
(***************************************************************************)
EXTENDS Naturals, Sequences, FiniteSets

\* ------------------------------------------------------------------ bounds

\* Calls made in one run.
MaxCalls == 3

\* Longest color_attachments list of a SubpassDesc, and the largest attachment id.
MaxAttachments == 3

\* ------------------------------------------------------------ input domains

\* enum BindingTypes
BindingTypes == {"Images", "UniformBuffers"}

\* pso::DescriptorSetIndex and pso::DescriptorBinding values the callers use.
SetIndices == {0, 1}
BindingIndices == {0, 1}

\* The composite key of DescRemapData::bindings.
Keys == BindingTypes \X SetIndices \X BindingIndices

\* DescriptorSetLayout = Vec<pso::DescriptorSetLayoutBinding>, a layout given
\* by the binding indices it declares.
Layouts == {<<>>, <<0, 1>>}

\* enum DescSetBindings: values a descriptor update pushes.
DescSetBindingValues ==
    { [tag |-> "Texture", binding |-> 0, texture |-> 7],
      [tag |-> "Sampler", binding |-> 1, sampler |-> 9] }

\* hal::memory::Properties, a set of flags.
PropertyFlags ==
    {"DEVICE_LOCAL", "COHERENT", "CPU_VISIBLE", "CPU_CACHED", "WRITE_COMBINED"}

AttachmentIds == 0..MaxAttachments

\* ---------------------------------------------------------------- helpers

None == [tag |-> "None"]
Some(v) == [tag |-> "Some", val |-> v]
Ok(v) == [tag |-> "Ok", val |-> v]
Err(e) == [tag |-> "Err", err |-> e]

\* FastHashMap::default(): the map with no entry.
EmptyMap == [k \in {} |-> 0]

\* HashMap::entry(k).or_insert(d): the map with k present, d where it was absent.
or_insert(m, k, d) ==
    IF k \in DOMAIN m
    THEN m
    ELSE [x \in (DOMAIN m) \cup {k} |-> IF x = k THEN d ELSE m[x]]

\* HashMap::get(k)
map_get(m, k) == IF k \in DOMAIN m THEN Some(m[k]) ELSE None

Last(s) == s[Len(s)]
Range(s) == {s[i] : i \in 1..Len(s)}

VARIABLES
    desc_remap_data,   \* PipelineLayout::desc_remap_data: [bindings, names, next_binding]
    descriptor_sets,   \* the DescriptorSet values allocated so far: [layout, bindings]
    set_bindings,      \* the Arc<Mutex<Vec<DescSetBindings>>> cells, by cell id
    memory,            \* a Memory: [properties]
    subpass,           \* a SubpassDesc: [color_attachments]
    ret,               \* the last call: [op, args, val]
    spare_slots,       \* history: per kind, the slots insert_missing_binding_into_spare appended
    reserved,          \* history: per kind, the slots reserve_binding returned
    registered,        \* history: per key, the slots registered, in call order
    returned,          \* history: per key, the list the last registering call returned
    explicit_reserved, \* history: every insert_missing_binding got a slot reserved before
    calls              \* history: number of calls made

vars == <<desc_remap_data, descriptor_sets, set_bindings, memory, subpass, ret,
          spare_slots, reserved, registered, returned, explicit_reserved, calls>>

remap_hist == <<spare_slots, reserved, registered, returned, explicit_reserved>>
pool_vars == <<descriptor_sets, set_bindings>>

\* ------------------------------------------------------------ DescRemapData

\* DescRemapData::new
DescRemapData_new ==
    [bindings |-> EmptyMap, names |-> EmptyMap, next_binding |-> EmptyMap]

\* The per-kind counter as a caller sees it: entry(btype).or_insert(0).
next_binding_of(self, btype) ==
    IF btype \in DOMAIN self.next_binding THEN self.next_binding[btype] ELSE 0

\* Mutant: a key already present keeps its list (or_insert(vec![nb]), no push).
spare_coalescing(self, btype, set, binding) ==
    LET next_binding == or_insert(self.next_binding, btype, 0)
        nb == next_binding[btype]
        bindings == or_insert(self.bindings, <<btype, set, binding>>, <<nb>>)
        val == bindings[<<btype, set, binding>>]
    IN  [self |-> [self EXCEPT
                     !.bindings = bindings,
                     !.next_binding = [next_binding EXCEPT ![btype] = nb + 1]],
         val |-> val]

\* Mutant: the counter is read and never advanced.
spare_no_increment(self, btype, set, binding) ==
    LET next_binding == or_insert(self.next_binding, btype, 0)
        nb == next_binding[btype]
        bindings == or_insert(self.bindings, <<btype, set, binding>>, <<>>)
        val == Append(bindings[<<btype, set, binding>>], nb)
    IN  [self |-> [self EXCEPT
                     !.bindings = [bindings EXCEPT ![<<btype, set, binding>>] = val],
                     !.next_binding = next_binding],
         val |-> val]

\* Mutant: one counter for all kinds (next_binding keyed by a fixed kind).
spare_shared_counter(self, btype, set, binding) ==
    LET next_binding == or_insert(self.next_binding, "Images", 0)
        nb == next_binding["Images"]
        bindings == or_insert(self.bindings, <<btype, set, binding>>, <<>>)
        val == Append(bindings[<<btype, set, binding>>], nb)
    IN  [self |-> [self EXCEPT
                     !.bindings = [bindings EXCEPT ![<<btype, set, binding>>] = val],
                     !.next_binding = [next_binding EXCEPT !["Images"] = nb + 1]],
         val |-> val]

\* DescRemapData::insert_missing_binding_into_spare
insert_missing_binding_into_spare(self, btype, set, binding) ==
    LET next_binding == or_insert(self.next_binding, btype, 0)
        nb == next_binding[btype]
        bindings == or_insert(self.bindings, <<btype, set, binding>>, <<>>)
        val == Append(bindings[<<btype, set, binding>>], nb)
    IN  [self |-> [self EXCEPT
                     !.bindings = [bindings EXCEPT ![<<btype, set, binding>>] = val],
                     !.next_binding = [next_binding EXCEPT ![btype] = nb + 1]],
         val |-> val]

\* Mutant: returns the counter after the increment (`*nb` for `*nb - 1`).
reserve_binding_post(self, btype) ==
    LET next_binding == or_insert(self.next_binding, btype, 0)
        nb == next_binding[btype] + 1
    IN  [self |-> [self EXCEPT !.next_binding = [next_binding EXCEPT ![btype] = nb]],
         val |-> nb]

\* Mutant: returns the counter and leaves it where it was.
reserve_binding_no_increment(self, btype) ==
    LET next_binding == or_insert(self.next_binding, btype, 0)
    IN  [self |-> [self EXCEPT !.next_binding = next_binding],
         val |-> next_binding[btype]]

\* DescRemapData::reserve_binding
reserve_binding(self, btype) ==
    LET next_binding == or_insert(self.next_binding, btype, 0)
        nb == next_binding[btype] + 1
    IN  [self |-> [self EXCEPT !.next_binding = [next_binding EXCEPT ![btype] = nb]],
         val |-> nb - 1]

\* Mutant: the slot goes to the front of the list (insert(0, nb) for push(nb)).
insert_missing_binding_front(self, nb, btype, set, binding) ==
    LET bindings == or_insert(self.bindings, <<btype, set, binding>>, <<>>)
        val == <<nb>> \o bindings[<<btype, set, binding>>]
    IN  [self |-> [self EXCEPT
                     !.bindings = [bindings EXCEPT ![<<btype, set, binding>>] = val]],
         val |-> val]

\* DescRemapData::insert_missing_binding
insert_missing_binding(self, nb, btype, set, binding) ==
    LET bindings == or_insert(self.bindings, <<btype, set, binding>>, <<>>)
        val == Append(bindings[<<btype, set, binding>>], nb)
    IN  [self |-> [self EXCEPT
                     !.bindings = [bindings EXCEPT ![<<btype, set, binding>>] = val]],
         val |-> val]

\* Mutant: the set index is dropped from the key (the flattened namespace).
get_binding_any_set(self, btype, set, binding) ==
    IF \E s \in SetIndices : <<btype, s, binding>> \in DOMAIN self.bindings
    THEN Some(self.bindings[CHOOSE k \in DOMAIN self.bindings :
                              k[1] = btype /\ k[3] = binding])
    ELSE None

\* DescRemapData::get_binding
get_binding(self, btype, set, binding) ==
    map_get(self.bindings, <<btype, set, binding>>)

\* ----------------------------------------------------------- DescriptorPool

\* Vec::clone: an element-wise copy.
clone(layout) == [i \in 1..Len(layout) |-> layout[i]]

\* DescriptorPool::allocate_set.  cells are the Arc cells that exist; Arc::new
\* makes a new one holding Vec::new().
allocate_set(cells, layout) ==
    LET id == Len(cells) + 1
    IN  [cells |-> Append(cells, <<>>),
         val |-> Ok([layout |-> clone(layout), bindings |-> id])]

\* Mutant: freeing a set clears its bindings list.
free_sets_clearing(cells, sets) ==
    [cells |-> [i \in 1..Len(cells) |->
                  IF \E s \in sets : s.bindings = i THEN <<>> ELSE cells[i]]]

\* DescriptorPool::free_sets: the sets are moved in and dropped unread.
free_sets(cells, sets) == [cells |-> cells]

\* DescriptorPool::reset
reset(cells) == [cells |-> cells]

\* A descriptor update: pushes a binding onto the set's own list.
update_descriptor_set(cells, set, value) ==
    [cells EXCEPT ![set.bindings] = Append(@, value)]

\* ------------------------------------------------------------------ Memory

\* bitflags contains(): every flag of `other` is set.
contains(properties, other) == other \subseteq properties

\* Memory::can_upload
can_upload(self) == contains(self.properties, {"CPU_VISIBLE"})

\* Mutant: any of the two flags is enough (intersects for contains).
can_download_intersects(self) ==
    self.properties \cap ({"CPU_VISIBLE"} \cup {"CPU_CACHED"}) # {}

\* Memory::can_download
can_download(self) == contains(self.properties, {"CPU_VISIBLE"} \cup {"CPU_CACHED"})

\* Memory::map_flags, the GLenum as the set of its bits.
map_flags(self) ==
    LET flags0 == {}
        flags1 == IF can_download(self) THEN flags0 \cup {"MAP_READ_BIT"} ELSE flags0
        flags2 == IF can_upload(self) THEN flags1 \cup {"MAP_WRITE_BIT"} ELSE flags1
    IN  flags2

\* ------------------------------------------------------------- SubpassDesc

\* Iterator::any over color_attachments from position i: stops at the first match.
RECURSIVE any_from(_, _, _)
any_from(list, i, at_id) ==
    IF i > Len(list) THEN FALSE
    ELSE IF list[i] = at_id THEN TRUE
    ELSE any_from(list, i + 1, at_id)

\* Mutant: the scan starts at the second element.
is_using_skip_first(self, at_id) == any_from(self.color_attachments, 2, at_id)

\* SubpassDesc::is_using
is_using(self, at_id) == any_from(self.color_attachments, 1, at_id)

\* -------------------------------------------------------------------- Init

NoCall == [op |-> "none", args |-> <<>>, val |-> <<>>]

InitHist ==
    /\ ret = NoCall
    /\ spare_slots = [k \in BindingTypes |-> <<>>]
    /\ reserved = [k \in BindingTypes |-> <<>>]
    /\ registered = [key \in Keys |-> <<>>]
    /\ returned = [key \in Keys |-> <<>>]
    /\ explicit_reserved = TRUE
    /\ calls = 0

InitPipeline ==
    /\ desc_remap_data = DescRemapData_new
    /\ descriptor_sets = <<>>
    /\ set_bindings = <<>>

Init ==
    /\ InitPipeline
    /\ InitHist
    /\ memory = [properties |-> {"CPU_VISIBLE"}]
    /\ subpass = [color_attachments |-> <<>>]

\* ----------------------------------------------------------------- actions

InsertMissingBindingIntoSpare ==
    \E btype \in BindingTypes, set \in SetIndices, binding \in BindingIndices :
        LET r == insert_missing_binding_into_spare(desc_remap_data, btype, set, binding)
            key == <<btype, set, binding>>
        IN  /\ calls < MaxCalls
            /\ desc_remap_data' = r.self
            /\ ret' = [op |-> "insert_missing_binding_into_spare",
                       args |-> key, val |-> r.val]
            /\ spare_slots' = [spare_slots EXCEPT ![btype] = Append(@, Last(r.val))]
            /\ registered' = [registered EXCEPT
                                ![key] = Append(@, next_binding_of(desc_remap_data, btype))]
            /\ returned' = [returned EXCEPT ![key] = r.val]
            /\ calls' = calls + 1
            /\ UNCHANGED <<pool_vars, memory, subpass, reserved, explicit_reserved>>

ReserveBinding ==
    \E btype \in BindingTypes :
        LET r == reserve_binding(desc_remap_data, btype)
        IN  /\ calls < MaxCalls
            /\ desc_remap_data' = r.self
            /\ ret' = [op |-> "reserve_binding", args |-> <<btype>>, val |-> r.val]
            /\ reserved' = [reserved EXCEPT ![btype] = Append(@, r.val)]
            /\ calls' = calls + 1
            /\ UNCHANGED <<pool_vars, memory, subpass, spare_slots, registered,
                           returned, explicit_reserved>>

InsertMissingBinding ==
    \E btype \in BindingTypes, set \in SetIndices, binding \in BindingIndices :
      \E nb \in 0..next_binding_of(desc_remap_data, btype) :
        LET r == insert_missing_binding(desc_remap_data, nb, btype, set, binding)
            key == <<btype, set, binding>>
        IN  /\ calls < MaxCalls
            /\ desc_remap_data' = r.self
            /\ ret' = [op |-> "insert_missing_binding",
                       args |-> <<nb, btype, set, binding>>, val |-> r.val]
            /\ registered' = [registered EXCEPT ![key] = Append(@, nb)]
            /\ returned' = [returned EXCEPT ![key] = r.val]
            /\ explicit_reserved' = (explicit_reserved /\ nb \in Range(reserved[btype]))
            /\ calls' = calls + 1
            /\ UNCHANGED <<pool_vars, memory, subpass, spare_slots, reserved>>

GetBinding ==
    \E btype \in BindingTypes, set \in SetIndices, binding \in BindingIndices :
        /\ calls < MaxCalls
        /\ ret' = [op |-> "get_binding", args |-> <<btype, set, binding>>,
                   val |-> get_binding(desc_remap_data, btype, set, binding)]
        /\ calls' = calls + 1
        /\ UNCHANGED <<desc_remap_data, pool_vars, memory, subpass, remap_hist>>

AllocateSet ==
    \E layout \in Layouts :
        LET r == allocate_set(set_bindings, layout)
        IN  /\ calls < MaxCalls
            /\ set_bindings' = r.cells
            /\ descriptor_sets' =
                 IF r.val.tag = "Ok" THEN Append(descriptor_sets, r.val.val)
                 ELSE descriptor_sets
            /\ ret' = [op |-> "allocate_set", args |-> <<layout>>, val |-> r.val]
            /\ calls' = calls + 1
            /\ UNCHANGED <<desc_remap_data, memory, subpass, remap_hist>>

FreeSets ==
    \E sets \in SUBSET Range(descriptor_sets) :
        /\ calls < MaxCalls
        /\ set_bindings' = free_sets(set_bindings, sets).cells
        /\ ret' = [op |-> "free_sets", args |-> <<sets>>, val |-> <<>>]
        /\ calls' = calls + 1
        /\ UNCHANGED <<desc_remap_data, descriptor_sets, memory, subpass, remap_hist>>

Reset ==
    /\ calls < MaxCalls
    /\ set_bindings' = reset(set_bindings).cells
    /\ ret' = [op |-> "reset", args |-> <<>>, val |-> <<>>]
    /\ calls' = calls + 1
    /\ UNCHANGED <<desc_remap_data, descriptor_sets, memory, subpass, remap_hist>>

UpdateDescriptorSet ==
    \E i \in 1..Len(descriptor_sets), value \in DescSetBindingValues :
        /\ calls < MaxCalls
        /\ set_bindings' = update_descriptor_set(set_bindings, descriptor_sets[i], value)
        /\ ret' = [op |-> "update_descriptor_set", args |-> <<i, value>>, val |-> <<>>]
        /\ calls' = calls + 1
        /\ UNCHANGED <<desc_remap_data, descriptor_sets, memory, subpass, remap_hist>>

\* Memory and SubpassDesc: pure methods applied to a value drawn at Init.

CanUpload ==
    /\ calls < MaxCalls
    /\ ret' = [op |-> "can_upload", args |-> <<>>, val |-> can_upload(memory)]
    /\ calls' = calls + 1
    /\ UNCHANGED <<desc_remap_data, pool_vars, memory, subpass, remap_hist>>

CanDownload ==
    /\ calls < MaxCalls
    /\ ret' = [op |-> "can_download", args |-> <<>>, val |-> can_download(memory)]
    /\ calls' = calls + 1
    /\ UNCHANGED <<desc_remap_data, pool_vars, memory, subpass, remap_hist>>

MapFlags ==
    /\ calls < MaxCalls
    /\ ret' = [op |-> "map_flags", args |-> <<>>, val |-> map_flags(memory)]
    /\ calls' = calls + 1
    /\ UNCHANGED <<desc_remap_data, pool_vars, memory, subpass, remap_hist>>

IsUsing ==
    \E at_id \in AttachmentIds :
        /\ calls < MaxCalls
        /\ ret' = [op |-> "is_using", args |-> <<at_id>>, val |-> is_using(subpass, at_id)]
        /\ calls' = calls + 1
        /\ UNCHANGED <<desc_remap_data, pool_vars, memory, subpass, remap_hist>>

\* ---------------------------------------------------------- specifications

\* The remapper of one pipeline layout.
Next ==
    \/ InsertMissingBindingIntoSpare
    \/ ReserveBinding
    \/ InsertMissingBinding
    \/ GetBinding

Spec == Init /\ [][Next]_vars

\* A descriptor pool beside a remapper that is being populated.
NextPool ==
    \/ AllocateSet
    \/ FreeSets
    \/ Reset
    \/ UpdateDescriptorSet
    \/ InsertMissingBindingIntoSpare
    \/ ReserveBinding

SpecPool == Init /\ [][NextPool]_vars

\* A Memory with any properties.
InitMemory ==
    /\ InitPipeline
    /\ InitHist
    /\ memory \in {[properties |-> p] : p \in SUBSET PropertyFlags}
    /\ subpass = [color_attachments |-> <<>>]

NextMemory == CanUpload \/ CanDownload \/ MapFlags

SpecMemory == InitMemory /\ [][NextMemory]_vars

\* A SubpassDesc with any short color_attachments list.
ColorAttachmentLists ==
    UNION {[1..n -> AttachmentIds] : n \in 0..MaxAttachments}

InitSubpass ==
    /\ InitPipeline
    /\ InitHist
    /\ memory = [properties |-> {"CPU_VISIBLE"}]
    /\ subpass \in {[color_attachments |-> l] : l \in ColorAttachmentLists}

NextSubpass == IsUsing

SpecSubpass == InitSubpass /\ [][NextSubpass]_vars

\* ------------------------------------------------------------------ claims

\* The slots of a key's mapping list, and how often slot v occurs in the
\* mapping lists of kind btype.
SlotList(key) ==
    IF key \in DOMAIN desc_remap_data.bindings THEN desc_remap_data.bindings[key] ELSE <<>>

Occurrences(btype, v) ==
    Cardinality({ <<key, i>> \in Keys \X (1..MaxCalls + 1) :
                    /\ key[1] = btype
                    /\ i <= Len(SlotList(key))
                    /\ SlotList(key)[i] = v })

NoDuplicates(s) == \A i, j \in 1..Len(s) : i # j => s[i] # s[j]

Counts(s) == [i \in 1..Len(s) |-> i - 1]

OtherKind(btype) == CHOOSE k \in BindingTypes : k # btype

\* C1: every insert_missing_binding_into_spare call on a key returns the list
\* the previous registering call on that key returned (empty before the first)
\* with exactly one element appended: one longer, the earlier elements where
\* they were; a repeated registration is neither coalesced nor replaced.
C1_SpareAppendsOne ==
    [][ ret'.op = "insert_missing_binding_into_spare" =>
          LET before == returned[ret'.args]
          IN  /\ Len(ret'.val) = Len(before) + 1
              /\ SubSeq(ret'.val, 1, Len(before)) = before ]_vars

\* Three insert_missing_binding_into_spare calls in a row on one key.
C1_Witness ==
    /\ ret.op = "insert_missing_binding_into_spare"
    /\ Len(ret.val) = 3
    /\ Len(spare_slots[ret.args[1]]) = 3

\* C2: no two insert_missing_binding_into_spare calls for one kind append the
\* same slot, whatever sets and bindings they are made with.
C2_SpareSlotsDistinct ==
    \A btype \in BindingTypes : NoDuplicates(spare_slots[btype])

\* Two spare slots of one kind on different keys, a reservation in between.
C2_Witness ==
    \E btype \in BindingTypes :
        /\ Len(spare_slots[btype]) = 2
        /\ Len(reserved[btype]) = 1
        /\ spare_slots[btype][1] < reserved[btype][1]
        /\ reserved[btype][1] < spare_slots[btype][2]
        /\ \E k1, k2 \in Keys : k1 # k2 /\ Len(SlotList(k1)) = 1 /\ Len(SlotList(k2)) = 1

\* C3 as claimed: the slots assigned for two different kinds are disjoint.
C3_KindsDisjoint ==
    \A k1, k2 \in BindingTypes :
        k1 # k2 => Range(spare_slots[k1]) \cap Range(spare_slots[k2]) = {}

\* C3 amended: the kinds count independently, each from 0: with no
\* reserve_binding for a kind, its N spare slots are 0..N-1 whatever was
\* assigned for the other kind, so N slots of K and M slots of K' share
\* the values 0..min(N,M)-1.
C3_KindsCountIndependently ==
    \A btype \in BindingTypes :
        reserved[btype] = <<>> => spare_slots[btype] = Counts(spare_slots[btype])

\* Two spare slots for Images, then one for UniformBuffers.
C3_Witness ==
    /\ ret.op = "insert_missing_binding_into_spare"
    /\ ret.args[1] = "UniformBuffers"
    /\ spare_slots["Images"] = <<0, 1>>
    /\ spare_slots["UniformBuffers"] = <<0>>

\* C4 as claimed: when insert_missing_binding was only given slots reserved
\* before for the same kind, the per-kind counter never decreases and no slot
\* value occurs twice in the mapping lists of a kind.
C4_NoSlotReused ==
    [][ /\ \A btype \in BindingTypes :
             next_binding_of(desc_remap_data, btype)' >= next_binding_of(desc_remap_data, btype)
        /\ explicit_reserved' =>
             \A btype \in BindingTypes : \A v \in 0..MaxCalls :
                 Occurrences(btype, v)' <= 1 ]_vars

\* C4 amended: the counter never decreases and issues no value twice (the
\* slots reserve_binding returned and insert_missing_binding_into_spare
\* appended for a kind are pairwise distinct); a spare slot occurs exactly
\* once in the mapping lists of its kind, and a slot that occurs more than
\* once is a reserved one that insert_missing_binding was given repeatedly.
C4_CounterIssuesOnce ==
    [][ /\ \A btype \in BindingTypes :
             next_binding_of(desc_remap_data, btype)' >= next_binding_of(desc_remap_data, btype)
        /\ explicit_reserved' =>
             \A btype \in BindingTypes :
                 /\ NoDuplicates(spare_slots[btype] \o reserved[btype])'
                 /\ \A v \in Range(spare_slots[btype])' : Occurrences(btype, v)' = 1
                 /\ \A v \in 0..MaxCalls :
                        Occurrences(btype, v)' > 1 => v \in Range(reserved[btype])' ]_vars

\* A spare slot, then a reserved slot registered by insert_missing_binding.
C4_Witness ==
    /\ explicit_reserved
    /\ ret.op = "insert_missing_binding"
    /\ \E btype \in BindingTypes :
           /\ Len(spare_slots[btype]) = 1
           /\ Len(reserved[btype]) = 1
           /\ Occurrences(btype, spare_slots[btype][1]) = 1
           /\ Occurrences(btype, reserved[btype][1]) = 1

\* C5: get_binding returns the slots registered for the key, in the order of
\* the registrations, by whichever method each was made; after
\* insert_missing_binding(nb, ..) the list of the key ends with nb.
C5_LookupInRegistrationOrder ==
    /\ \A key \in Keys :
           registered[key] # <<>> =>
               get_binding(desc_remap_data, key[1], key[2], key[3]) = Some(registered[key])
    /\ ret.op = "insert_missing_binding" =>
           LET got == get_binding(desc_remap_data, ret.args[2], ret.args[3], ret.args[4])
           IN  /\ got.tag = "Some"
               /\ Last(got.val) = ret.args[1]

\* A key with a spare slot first and a reserved slot, registered explicitly, second.
C5_Witness ==
    /\ ret.op = "insert_missing_binding"
    /\ LET key == <<ret.args[2], ret.args[3], ret.args[4]>>
       IN  /\ Len(registered[key]) = 2
           /\ registered[key][1] \in Range(spare_slots[key[1]])
           /\ registered[key][2] \in Range(reserved[key[1]])
           /\ registered[key][1] # registered[key][2]

\* C6: get_binding on a key no registration was made for is None, also when
\* other keys of the kind, set or binding are registered or slots of the
\* kind are reserved.
C6_UnregisteredIsNone ==
    /\ \A key \in Keys :
           registered[key] = <<>> =>
               get_binding(desc_remap_data, key[1], key[2], key[3]) = None
    /\ (ret.op = "get_binding" /\ registered[ret.args] = <<>>) => ret.val = None

\* A lookup of an unregistered key whose kind has a reserved slot and whose
\* binding index is registered in the other set.
C6_Witness ==
    /\ ret.op = "get_binding"
    /\ ret.val = None
    /\ reserved[ret.args[1]] # <<>>
    /\ \E s \in SetIndices :
           s # ret.args[2] /\ registered[<<ret.args[1], s, ret.args[3]>>] # <<>>

\* C7: reserve_binding returns the kind's counter (0 on first use), advances
\* it by one, and leaves every mapping list, every lookup and the other
\* kinds' counters as they were.
C7_ReserveFrame ==
    [][ ret'.op = "reserve_binding" =>
          LET btype == ret'.args[1]
          IN  /\ ret'.val = next_binding_of(desc_remap_data, btype)
              /\ (btype \notin DOMAIN desc_remap_data.next_binding => ret'.val = 0)
              /\ next_binding_of(desc_remap_data', btype) =
                     next_binding_of(desc_remap_data, btype) + 1
              /\ desc_remap_data'.bindings = desc_remap_data.bindings
              /\ desc_remap_data'.names = desc_remap_data.names
              /\ \A key \in Keys :
                     get_binding(desc_remap_data', key[1], key[2], key[3]) =
                         get_binding(desc_remap_data, key[1], key[2], key[3])
              /\ \A k \in BindingTypes \ {btype} :
                     /\ (k \in DOMAIN desc_remap_data'.next_binding) =
                            (k \in DOMAIN desc_remap_data.next_binding)
                     /\ next_binding_of(desc_remap_data', k) =
                            next_binding_of(desc_remap_data, k) ]_vars

\* A reservation of slot 1 of a kind with slot 0 mapped, the other kind counting too.
C7_Witness ==
    /\ ret.op = "reserve_binding"
    /\ ret.val = 1
    /\ next_binding_of(desc_remap_data, ret.args[1]) = 2
    /\ next_binding_of(desc_remap_data, OtherKind(ret.args[1])) = 1
    /\ \E key \in Keys : key[1] = ret.args[1] /\ SlotList(key) = <<0>>

\* C8: allocate_set returns Ok with the given layout and an empty bindings
\* list that no other set shares, and touches no existing list; free_sets
\* and reset leave the remapper, the sets and their bindings lists as they were.
C8_PoolFrame ==
    [][ /\ ret'.op = "allocate_set" =>
             /\ ret'.val.tag = "Ok"
             /\ ret'.val.val.layout = ret'.args[1]
             /\ set_bindings'[ret'.val.val.bindings] = <<>>
             /\ \A i \in 1..Len(descriptor_sets) :
                    descriptor_sets[i].bindings # ret'.val.val.bindings
             /\ \A i \in 1..Len(set_bindings) : set_bindings'[i] = set_bindings[i]
             /\ desc_remap_data' = desc_remap_data
        /\ ret'.op \in {"free_sets", "reset"} =>
             /\ desc_remap_data' = desc_remap_data
             /\ descriptor_sets' = descriptor_sets
             /\ set_bindings' = set_bindings ]_vars

\* free_sets of a set whose bindings list was written.
C8_Witness ==
    /\ ret.op = "free_sets"
    /\ \E s \in ret.args[1] : Len(set_bindings[s.bindings]) = 1

\* C9: can_upload iff CPU_VISIBLE; can_download iff CPU_VISIBLE and
\* CPU_CACHED; map_flags has the read bit iff can_download, the write bit iff
\* can_upload, no other bit, and is empty iff neither holds.
C9_MemoryFlags ==
    LET visible == "CPU_VISIBLE" \in memory.properties
        cached == "CPU_CACHED" \in memory.properties
    IN  /\ ret.op = "can_upload" => ret.val = visible
        /\ ret.op = "can_download" => ret.val = (visible /\ cached)
        /\ ret.op = "map_flags" =>
               /\ ("MAP_READ_BIT" \in ret.val) = (visible /\ cached)
               /\ ("MAP_WRITE_BIT" \in ret.val) = visible
               /\ ret.val \subseteq {"MAP_READ_BIT", "MAP_WRITE_BIT"}
               /\ (ret.val = {}) = ~visible

\* map_flags of a host-cached allocation that is not host-visible.
C9_Witness ==
    /\ ret.op = "map_flags"
    /\ "CPU_CACHED" \in memory.properties
    /\ "CPU_VISIBLE" \notin memory.properties
    /\ ret.val = {}

\* C10: is_using(id) is true iff id is an element of color_attachments,
\* wherever and however often it occurs; false for the empty list.
C10_IsUsingMembership ==
    ret.op = "is_using" =>
        /\ ret.val = (\E i \in 1..Len(subpass.color_attachments) :
                          subpass.color_attachments[i] = ret.args[1])
        /\ (subpass.color_attachments = <<>> => ret.val = FALSE)

\* An id found only at the head of a list of three.
C10_Witness ==
    /\ ret.op = "is_using"
    /\ ret.val = TRUE
    /\ Len(subpass.color_attachments) = 3
    /\ subpass.color_attachments[1] = ret.args[1]
    /\ subpass.color_attachments[2] # ret.args[1]
    /\ subpass.color_attachments[3] # ret.args[1]

====
